---- MODULE Spec2Model ----
(***************************************************************************)
(* A model of the ledger interaction layer of the attendance monitor:      *)
(*   - the capture loop and its write pipeline (face_attendance.py),       *)
(*   - the time-range query: timestamp resolution, block-time              *)
(*     reconciliation and the range filter (Get_Attendance_By_Time.py).    *)
(* Texts are sequences of one-character strings, a datetime is the tuple   *)
(* <<year, month, day, hour, minute, second>> and None is the empty tuple. *)
(***************************************************************************)
EXTENDS Integers, Sequences, FiniteSets, TLC

VARIABLES
    \* ---- timestamp resolution of one text (collect_records, lines 75-85)
    ts_text,        \* the declared timestamp text being resolved
    ts_pc,          \* "ready" | "done"
    rec_dt,         \* the result: a datetime or None
    \* ---- the range filter (collect_records)
    ledger,         \* the contract's records, as getRecord returns them
    start_dt,       \* the window
    end_dt,
    include_invalid,
    block_time_map, \* [present |-> FALSE] for None, else the dict in times
    cr_pc,          \* "idle" | "call" | "loop" | "returned"
    total,
    cr_i,           \* the loop index i
    records,        \* the in-range result
    invalid_records,
    queried,        \* the indices passed to getRecord, in call order
    fetch_failed,   \* the indices whose getRecord call raised
    unpacked,       \* the indices that reached the unpacking at line 66, in order
    resolved,       \* rec_dt at line 91, per index that got there
    stdout,         \* the warnings printed, in order
    \* ---- block-time reconciliation (main, lines 212-243)
    blocks,         \* the chain: blocks[n + 1] is block number n
    from_block,     \* --from-block
    to_block,       \* --to-block: [latest |-> TRUE] or [latest |-> FALSE, number |-> n]
    rc_pc,          \* "idle" | "start" | "scan" | "done"
    rc_to,          \* to_block once resolved
    rc_b,           \* the loop variable b
    current_index,
    \* ---- the capture loop and its write pipeline (face_attendance.py)
    cap_pc,         \* "idle" | "running" | "stopped"
    asked_send,     \* --send as given on the command line
    connected,      \* init_web3_and_contract reached the endpoint
    send_to_chain,  \* args.send once web3 and the contract are initialised
    credentials,    \* web3, contract, private_key and account_address all set
    session,        \* the number of capture runs started
    logged_today,
    detections,     \* the number of faces processed so far
    clock,          \* datetime.now(), in seconds
    tx_count,       \* the account's transaction count at the latest block
    pending,        \* transactions the node accepted and has not mined
    submitted,      \* every call of send_raw_transaction, in order
    last,           \* what the latest face processed did
    \* ---- the command line of the query (main, lines 147-170)
    arg_date,       \* --date, None when absent
    arg_start,      \* --start
    arg_end,        \* --end
    args_pc,        \* "idle" | "parse" | "ok" | "error"
    \* ---- the dashboard's session state (app.py)
    run_webcam,
    logged_users,
    session_entries,
    frames,         \* the number of faces the dashboard processed so far
    earlier_users,  \* history: the names logged in sessions before the latest Start
    \* ---- the content hash of two (name, timestamp) pairs
    hash_a,
    hash_b,
    hash_out        \* None, or the two hashes

resolverVars == <<ts_text, ts_pc, rec_dt>>

readerInputs == <<ledger, start_dt, end_dt, include_invalid, block_time_map>>

readerVars ==
    <<readerInputs, cr_pc, total, cr_i, records, invalid_records, queried, fetch_failed,
      unpacked, resolved, stdout>>

reconcilerVars == <<blocks, from_block, to_block, rc_pc, rc_to, rc_b, current_index>>

writerVars ==
    <<cap_pc, asked_send, connected, send_to_chain, credentials, session, logged_today,
      detections, clock, tx_count, pending, submitted, last>>

argsVars == <<arg_date, arg_start, arg_end, args_pc>>

dashVars == <<run_webcam, logged_users, session_entries, frames, earlier_users>>

hashVars == <<hash_a, hash_b, hash_out>>

extraVars == <<argsVars, dashVars, hashVars>>

vars == <<resolverVars, readerVars, reconcilerVars, writerVars, extraVars>>

None == <<>>

\* ------------------------------------------------------------------------
\* Characters and numerals
\* ------------------------------------------------------------------------
Digits == {"0", "1", "2", "3", "4", "5", "6", "7", "8", "9"}
D19 == Digits \ {"0"}
D05 == {"0", "1", "2", "3", "4", "5"}
Tab == "\t"
Whitespace == {" ", Tab}

DigitChar == <<"0", "1", "2", "3", "4", "5", "6", "7", "8", "9">>

DigitVal(c) == CHOOSE v \in 0..9 : DigitChar[v + 1] = c

\* int() of a field captured by the format: digits, possibly after a space
RECURSIVE IntOf(_)
IntOf(s) ==
    IF s = <<>> THEN 0
    ELSE IF s[1] = " " THEN IntOf(Tail(s))
    ELSE IntOf(SubSeq(s, 1, Len(s) - 1)) * 10 + DigitVal(s[Len(s)])

Pad2(n) == <<DigitChar[((n \div 10) % 10) + 1], DigitChar[(n % 10) + 1]>>

Pad4(n) ==
    <<DigitChar[((n \div 1000) % 10) + 1], DigitChar[((n \div 100) % 10) + 1]>> \o Pad2(n % 100)

\* datetime.strftime("%Y-%m-%d %H:%M:%S")
Strftime(dt) ==
    Pad4(dt[1]) \o <<"-">> \o Pad2(dt[2]) \o <<"-">> \o Pad2(dt[3]) \o <<" ">>
        \o Pad2(dt[4]) \o <<":">> \o Pad2(dt[5]) \o <<":">> \o Pad2(dt[6])

\* ------------------------------------------------------------------------
\* datetime: construction and comparison
\* ------------------------------------------------------------------------
IsLeap(y) == ((y % 4) = 0 /\ (y % 100) # 0) \/ (y % 400) = 0

DaysInMonth(y, m) ==
    IF m = 2 THEN (IF IsLeap(y) THEN 29 ELSE 28)
    ELSE IF m \in {4, 6, 9, 11} THEN 30 ELSE 31

\* datetime(y, mo, d, h, mi, s): the tuple, or None where it raises ValueError
MakeDatetime(y, mo, d, h, mi, s) ==
    IF /\ y >= 1 /\ y <= 9999
       /\ mo >= 1 /\ mo <= 12
       /\ d >= 1 /\ d <= DaysInMonth(y, mo)
       /\ h >= 0 /\ h <= 23
       /\ mi >= 0 /\ mi <= 59
       /\ s >= 0 /\ s <= 59
    THEN <<y, mo, d, h, mi, s>>
    ELSE None

RECURSIVE DtLessFrom(_, _, _)
DtLessFrom(a, b, k) ==
    IF k > 6 THEN FALSE
    ELSE IF a[k] # b[k] THEN a[k] < b[k]
    ELSE DtLessFrom(a, b, k + 1)

\* a < b and a <= b on datetimes
DtLt(a, b) == DtLessFrom(a, b, 1)

DtLe(a, b) == a = b \/ DtLt(a, b)

\* ------------------------------------------------------------------------
\* The regular expressions: a pattern is a sequence of components; a
\* component is either [alts |-> sequence of alternatives], an alternative
\* being a sequence of character sets, tried in order, or [plus |-> set],
\* one or more characters of the set, longest first.
\* ------------------------------------------------------------------------
Lit(c) == [alts |-> << <<{c}>> >>]

\* _strptime.TimeRE: the directives of "%Y-%m-%d %H:%M:%S"
RegexY == [alts |-> << <<Digits, Digits, Digits, Digits>> >>]

Regexm == [alts |-> << <<{"1"}, {"0", "1", "2"}>>, <<{"0"}, D19>>, <<D19>> >>]

Regexd == [alts |-> << <<{"3"}, {"0", "1"}>>, <<{"1", "2"}, Digits>>, <<{"0"}, D19>>,
                       <<D19>>, <<{" "}, D19>> >>]

RegexH == [alts |-> << <<{"2"}, {"0", "1", "2", "3"}>>, <<{"0", "1"}, Digits>>, <<Digits>> >>]

RegexM == [alts |-> << <<D05, Digits>>, <<Digits>> >>]

RegexS == [alts |-> << <<{"6"}, {"0", "1"}>>, <<D05, Digits>>, <<Digits>> >>]

\* DATETIME_FORMAT compiled by _strptime: the blank becomes \s+
DATETIME_FORMAT ==
    <<RegexY, Lit("-"), Regexm, Lit("-"), Regexd, [plus |-> Whitespace],
      RegexH, Lit(":"), RegexM, Lit(":"), RegexS>>

\* r"\d{4}-\d{2}-\d{2} \d{2}:\d{2}:\d{2}"
FallbackPattern ==
    << [alts |-> << <<Digits, Digits, Digits, Digits, {"-"}, Digits, Digits, {"-"}, Digits, Digits,
                      {" "}, Digits, Digits, {":"}, Digits, Digits, {":"}, Digits, Digits>> >>] >>

AltMatches(t, p, alt) ==
    /\ p + Len(alt) - 1 <= Len(t)
    /\ \A j \in 1..Len(alt) : t[p + j - 1] \in alt[j]

RECURSIVE RunLength(_, _, _)
RunLength(t, p, set) ==
    IF p <= Len(t) /\ t[p] \in set THEN 1 + RunLength(t, p + 1, set) ELSE 0

\* the end positions a component can reach from position p, in the order the
\* backtracking matcher tries them
Candidates(t, p, comp) ==
    IF "plus" \in DOMAIN comp
    THEN LET n == RunLength(t, p, comp.plus) IN [j \in 1..n |-> p + n - j + 1]
    ELSE LET hit == {a \in 1..Len(comp.alts) : AltMatches(t, p, comp.alts[a])}
             RECURSIVE Ordered(_)
             Ordered(a) ==
                 IF a > Len(comp.alts) THEN <<>>
                 ELSE (IF a \in hit THEN <<p + Len(comp.alts[a])>> ELSE <<>>) \o Ordered(a + 1)
         IN Ordered(1)

\* re.match from position p of components k..: the positions where each
\* component ends (first successful path), or None
RECURSIVE ReMatchFrom(_, _, _, _)
RECURSIVE TryCandidates(_, _, _, _, _)
ReMatchFrom(pat, t, k, p) ==
    IF k > Len(pat) THEN <<p>>
    ELSE TryCandidates(pat, t, k, Candidates(t, p, pat[k]), 1)

TryCandidates(pat, t, k, cands, j) ==
    IF j > Len(cands) THEN None
    ELSE LET rest == ReMatchFrom(pat, t, k + 1, cands[j])
         IN IF rest # None
            THEN (IF k = Len(pat) THEN <<cands[j]>> ELSE <<cands[j]>> \o rest)
            ELSE TryCandidates(pat, t, k, cands, j + 1)

\* the leftmost start at or after p where the pattern matches, 0 when none
RECURSIVE SearchFrom(_, _, _)
SearchFrom(pat, t, p) ==
    IF p > Len(t) + 1 THEN 0
    ELSE IF ReMatchFrom(pat, t, 1, p) # None THEN p
    ELSE SearchFrom(pat, t, p + 1)

LastStart(pat, t) ==
    LET hits == {p \in 1..Len(t) : ReMatchFrom(pat, t, 1, p) # None}
    IN IF hits = {} THEN 0 ELSE CHOOSE p \in hits : \A q \in hits : q <= p

ReSearch_Last(pat, t) ==
    LET p == LastStart(pat, t)
    IN IF p = 0 THEN None ELSE SubSeq(t, p, ReMatchFrom(pat, t, 1, p)[Len(pat)] - 1)

\* re.search(pattern, text): m.group(0) of the first match, or None
ReSearch(pat, t) ==
    LET p == SearchFrom(pat, t, 1)
    IN IF p = 0 THEN None ELSE SubSeq(t, p, ReMatchFrom(pat, t, 1, p)[Len(pat)] - 1)

\* datetime.strptime(text, DATETIME_FORMAT): the datetime, or None where it
\* raises ValueError (no match, unconverted data remains, or a value the
\* datetime constructor rejects)
Strptime(t) ==
    LET e == ReMatchFrom(DATETIME_FORMAT, t, 1, 1)
    IN IF e = None THEN None
       ELSE IF e[11] # Len(t) + 1 THEN None
       ELSE MakeDatetime(IntOf(SubSeq(t, 1, e[1] - 1)),
                         IntOf(SubSeq(t, e[2], e[3] - 1)),
                         IntOf(SubSeq(t, e[4], e[5] - 1)),
                         IntOf(SubSeq(t, e[6], e[7] - 1)),
                         IntOf(SubSeq(t, e[8], e[9] - 1)),
                         IntOf(SubSeq(t, e[10], e[11] - 1)))

\* collect_records, lines 76-85: parse the text, else the first substring of
\* the strict shape
ResolveTimestamp(t) ==
    LET whole == Strptime(t)
    IN IF whole # None THEN whole
       ELSE LET m == ReSearch(FallbackPattern, t)
            IN IF m # None THEN Strptime(m) ELSE None

\* ------------------------------------------------------------------------
\* Block times
\* ------------------------------------------------------------------------
\* datetime.fromtimestamp(block.timestamp), the local time zone being UTC
FromTimestamp(ts) ==
    LET days == ts \div 86400
        sod == ts % 86400
        z == days + 719468
        era == z \div 146097
        doe == z - era * 146097
        yoe == (doe - (doe \div 1460) + (doe \div 36524) - (doe \div 146096)) \div 365
        doy == doe - (365 * yoe + (yoe \div 4) - (yoe \div 100))
        mp == (5 * doy + 2) \div 153
        d == doy - ((153 * mp + 2) \div 5) + 1
        m == IF mp < 10 THEN mp + 3 ELSE mp - 9
        y == yoe + era * 400 + (IF m <= 2 THEN 1 ELSE 0)
    IN <<y, m, d, sod \div 3600, (sod % 3600) \div 60, sod % 60>>

\* ------------------------------------------------------------------------
\* The range filter: collect_records
\* ------------------------------------------------------------------------
ResolverIdle == ts_text = <<>> /\ ts_pc = "idle" /\ rec_dt = None

ReconcilerIdle ==
    /\ blocks = <<>> /\ from_block = 0 /\ to_block = [latest |-> TRUE]
    /\ rc_pc = "idle" /\ rc_to = 0 /\ rc_b = 0 /\ current_index = 0

\* block.timestamp of block number n
BlockStampOf(n) == 1764620340 + 61 * n

NoResult == [success |-> FALSE, tx_hash |-> None]

NoFace ==
    [name |-> None, was_logged |-> FALSE, attempted |-> FALSE, calls |-> <<>>, outcome |-> "none",
     result |-> NoResult]

\* the clock when the first capture starts: 2025-12-01 20:18:58
WriterIdle ==
    /\ cap_pc = "idle" /\ asked_send = FALSE /\ connected = FALSE
    /\ send_to_chain = FALSE /\ credentials = FALSE /\ session = 0
    /\ logged_today = {} /\ detections = 0 /\ clock = BlockStampOf(0) - 2 /\ tx_count = 0
    /\ pending = {} /\ submitted = <<>> /\ last = NoFace

ArgsIdle == arg_date = None /\ arg_start = None /\ arg_end = None /\ args_pc = "idle"

\* app.py lines 129-136: the session state of a fresh browser session
DashIdle ==
    /\ run_webcam = FALSE /\ logged_users = {} /\ session_entries = <<>>
    /\ frames = 0 /\ earlier_users = {}

HashIdle == hash_a = None /\ hash_b = None /\ hash_out = None

ExtraIdle == ArgsIdle /\ DashIdle /\ HashIdle

MaxRecords == 2
MaxOverrides == 2

Noise == <<"n", "o", "i", "s", "e", " ">>

Garbage == <<"g", "a", "r", "b", "a", "g", "e">>

Alice == <<"a", "l", "i", "c", "e">>

Bob == <<"b", "o", "b">>

\* f"{name}-{timestamp}"
\* line 100 (mutation): the name is left out of the hashed text
HashInput_Stamp(name, timestamp) == timestamp

HashInput(name, timestamp) == name \o <<"-">> \o timestamp

\* hashlib.sha256(...).hexdigest(), taken as free of collisions: the digest
\* stands for the text it was computed from
Sha256(text) == <<"sha256">> \o text

NoMap == [present |-> FALSE, times |-> <<>>]

\* the instants of the fixture: records around the window 20:19:00 .. 20:20:00
T1859 == <<2025, 12, 1, 20, 18, 59>>
T1900 == <<2025, 12, 1, 20, 19, 0>>
T1930 == <<2025, 12, 1, 20, 19, 30>>
T2000 == <<2025, 12, 1, 20, 20, 0>>
T2001 == <<2025, 12, 1, 20, 20, 1>>

StoredTexts ==
    {Strftime(T1859), Strftime(T1900), Strftime(T1930), Strftime(T2000), Strftime(T2001),
     Garbage, Noise \o Strftime(T1930) \o Noise}

\* what getRecord(i).call() returns: (name, timestamp, hash), or, under a
\* different ABI, a tuple of another arity
RawRecords ==
    {<<Alice, t, Sha256(HashInput(Alice, t))>> : t \in StoredTexts} \cup {<<Alice, Strftime(T1930)>>}

Windows == {<<T1900, T2000>>, <<T1930, T1930>>}

BlockStamps == {BlockStampOf(0), BlockStampOf(1)}

BlockTimeMaps ==
    {NoMap} \cup
    UNION {{[present |-> TRUE, times |-> f] : f \in [0..(n - 1) -> {FromTimestamp(b) : b \in BlockStamps}]}
           : n \in 0..MaxOverrides}

SeqsUpTo(S, n) == UNION {[1..k -> S] : k \in 0..n}

ReaderIdle ==
    /\ ledger = <<>> /\ start_dt = None /\ end_dt = None /\ include_invalid = FALSE
    /\ block_time_map = NoMap
    /\ cr_pc = "idle" /\ total = 0 /\ cr_i = 0 /\ records = <<>> /\ invalid_records = <<>>
    /\ queried = <<>> /\ fetch_failed = {} /\ unpacked = <<>> /\ resolved = <<>> /\ stdout = <<>>

InitReader ==
    /\ ledger \in SeqsUpTo(RawRecords, MaxRecords)
    /\ \E w \in Windows : start_dt = w[1] /\ end_dt = w[2]
    /\ include_invalid \in BOOLEAN
    /\ block_time_map \in BlockTimeMaps
    /\ ResolverIdle /\ ReconcilerIdle /\ WriterIdle /\ ExtraIdle
    /\ cr_pc = "call" /\ total = 0 /\ cr_i = 0 /\ records = <<>> /\ invalid_records = <<>>
    /\ queried = <<>> /\ fetch_failed = {} /\ unpacked = <<>> /\ resolved = <<>> /\ stdout = <<>>

\* line 88: block_time_map and i in block_time_map
HasOverride(idx, map) == map.present /\ map.times # <<>> /\ idx \in DOMAIN map.times

ResolvedTime_TextFirst(parsed, idx, map) ==
    IF parsed # None THEN parsed
    ELSE IF HasOverride(idx, map) THEN map.times[idx] ELSE None

\* lines 76-89: the parsed time, replaced by the block time when there is one
ResolvedTime(parsed, idx, map) ==
    IF HasOverride(idx, map) THEN map.times[idx] ELSE parsed

InRange_Exclusive(s, t, e) == DtLt(s, t) /\ DtLt(t, e)

\* line 104: start_dt <= rec_dt <= end_dt
InRange(s, t, e) == DtLe(s, t) /\ DtLe(t, e)

AfterFetchError_Break(idx, n) == n

\* line 61: continue
AfterFetchError(idx, n) == idx + 1

RecordDict(idx, raw) == [index |-> idx, name |-> raw[1], timestamp |-> raw[2], hash |-> raw[3]]

ShapelessDict(idx, raw) == [index |-> idx, name |-> None, timestamp |-> None, hash |-> None, raw |-> raw]

\* line 54
CollectStart ==
    /\ cr_pc = "call"
    /\ total' = Len(ledger)
    /\ cr_i' = 0
    /\ cr_pc' = "loop"
    /\ UNCHANGED <<readerInputs, records, invalid_records, queried, fetch_failed, unpacked,
                   resolved, stdout, resolverVars, reconcilerVars, writerVars,
                   extraVars>>

\* lines 56-110: one iteration of the loop
CollectStep ==
    /\ cr_pc = "loop"
    /\ cr_i < total
    /\ \E fetch_ok \in BOOLEAN :
        LET raw == ledger[cr_i + 1]
            parsed == ResolveTimestamp(raw[2])
            rec == ResolvedTime(parsed, cr_i, block_time_map)
        IN /\ queried' = Append(queried, cr_i)
           /\ IF ~fetch_ok
              THEN /\ fetch_failed' = fetch_failed \cup {cr_i}
                   /\ stdout' = Append(stdout, <<"Error fetching record", cr_i>>)
                   /\ cr_i' = AfterFetchError(cr_i, total)
                   /\ UNCHANGED <<records, invalid_records, unpacked, resolved>>
              ELSE /\ unpacked' = Append(unpacked, cr_i)
                   /\ cr_i' = cr_i + 1
                   /\ fetch_failed' = fetch_failed
                   /\ IF Len(raw) # 3
                      THEN /\ stdout' = Append(stdout, <<"Unexpected record shape", cr_i>>)
                           /\ invalid_records' =
                                  IF include_invalid
                                  THEN Append(invalid_records, ShapelessDict(cr_i, raw))
                                  ELSE invalid_records
                           /\ UNCHANGED <<records, resolved>>
                      ELSE /\ resolved' = (cr_i :> rec) @@ resolved
                           /\ IF rec = None
                              THEN /\ stdout' = Append(stdout, <<"Skipping record", cr_i>>)
                                   /\ invalid_records' =
                                          IF include_invalid
                                          THEN Append(invalid_records, RecordDict(cr_i, raw))
                                          ELSE invalid_records
                                   /\ UNCHANGED records
                              ELSE /\ records' =
                                          IF InRange(start_dt, rec, end_dt)
                                          THEN Append(records, RecordDict(cr_i, raw))
                                          ELSE records
                                   /\ UNCHANGED <<invalid_records, stdout>>
    /\ UNCHANGED <<readerInputs, cr_pc, total, resolverVars, reconcilerVars, writerVars,
                   extraVars>>

\* line 112: return records, invalid_records
CollectReturn ==
    /\ cr_pc = "loop"
    /\ cr_i >= total
    /\ cr_pc' = "returned"
    /\ UNCHANGED <<readerInputs, total, cr_i, records, invalid_records, queried, fetch_failed,
                   unpacked, resolved, stdout, resolverVars, reconcilerVars, writerVars,
                   extraVars>>

NextReader == CollectStart \/ CollectStep \/ CollectReturn

SpecReader == InitReader /\ [][NextReader]_vars

\* ------------------------------------------------------------------------
\* Claims about the range filter
\* ------------------------------------------------------------------------
Indices(list) == {list[k].index : k \in 1..Len(list)}

IndexList(list) == [k \in 1..Len(list) |-> list[k].index]

\* the elements of a set of numbers, in ascending order
RECURSIVE SortedSeq(_)
SortedSeq(S) ==
    IF S = {} THEN <<>>
    ELSE LET lo == CHOOSE x \in S : \A y \in S : x <= y
         IN <<lo>> \o SortedSeq(S \ {lo})

\* the indices whose fetch succeeded
Fetched == {unpacked[k] : k \in 1..Len(unpacked)}

WellShaped(idx) == Len(ledger[idx + 1]) = 3

HasEntry(idx) == block_time_map.present /\ idx \in DOMAIN block_time_map.times

\* the time a record resolves to: the block time of its index when the mapping
\* has one, else what its declared timestamp resolves to
TimeOf(idx) ==
    IF HasEntry(idx) THEN block_time_map.times[idx] ELSE ResolveTimestamp(ledger[idx + 1][2])

\* a datetime as (day number, second of the day): ordered like the instants
DayNumber(dt) == 372 * dt[1] + 31 * dt[2] + dt[3]

SecondOfDay(dt) == 3600 * dt[4] + 60 * dt[5] + dt[6]

NotAfter(a, b) ==
    \/ DayNumber(a) < DayNumber(b)
    \/ DayNumber(a) = DayNumber(b) /\ SecondOfDay(a) <= SecondOfDay(b)

Within(t) == NotAfter(start_dt, t) /\ NotAfter(t, end_dt)

\* C3: the in-range result is exactly the successfully fetched records whose
\* resolved time t has start <= t <= end, both bounds included, in ascending
\* index order, each with the fields that were fetched.
C3_InclusiveRange ==
    cr_pc = "returned" =>
        /\ IndexList(records) =
               SortedSeq({idx \in Fetched : WellShaped(idx) /\ TimeOf(idx) # None /\ Within(TimeOf(idx))})
        /\ \A k \in 1..Len(records) :
               LET raw == ledger[records[k].index + 1]
               IN records[k].name = raw[1] /\ records[k].timestamp = raw[2] /\ records[k].hash = raw[3]

\* a record exactly on the end of the window is returned while one a second
\* past it is not
C3_Witness ==
    /\ cr_pc = "returned"
    /\ start_dt # end_dt
    /\ Fetched = {0, 1}
    /\ \E a, b \in Fetched :
           /\ WellShaped(a) /\ WellShaped(b)
           /\ TimeOf(a) = end_dt /\ a \in Indices(records)
           /\ TimeOf(b) = T2001 /\ b \notin Indices(records)

\* C4: a fetched record with no resolvable time is in the invalid set and not
\* in the in-range result, whether include_invalid is on or off.
C4_UnresolvableIsInvalid ==
    cr_pc = "returned" =>
        \A idx \in Fetched :
            (WellShaped(idx) /\ TimeOf(idx) = None) =>
                idx \in Indices(invalid_records) /\ idx \notin Indices(records)

\* C5: a failed fetch does not stop the scan: every index 0..total-1 is
\* queried, in ascending order, and every index that fetched is processed,
\* in ascending order.
C5_ScanContinues ==
    cr_pc = "returned" =>
        /\ total = Len(ledger)
        /\ queried = [k \in 1..total |-> k - 1]
        /\ unpacked = SortedSeq((0..(total - 1)) \ fetch_failed)

\* an index is processed after an earlier index failed to fetch
C5_Witness ==
    /\ cr_pc = "returned"
    /\ \E a \in fetch_failed : \E k \in 1..Len(unpacked) : unpacked[k] > a

\* C6: every index is among the processed records or has an entry in what the
\* scan returns: no index is absent from both.
C6_FetchErrorReturned ==
    cr_pc = "returned" =>
        \A idx \in 0..(total - 1) :
            \/ idx \in Fetched
            \/ idx \in Indices(records) \cup Indices(invalid_records)

\* C9: the resolved time of record i is the block time whenever the mapping
\* has an entry for i, also when the text parses to another instant or not at
\* all, and the parsed time only when there is no entry; a record with an
\* entry is never invalid and is filtered by its block time.
C9_OverrideWins ==
    cr_pc = "returned" =>
        /\ DOMAIN resolved = {idx \in Fetched : WellShaped(idx)}
        /\ \A idx \in DOMAIN resolved :
               IF HasEntry(idx)
               THEN /\ resolved[idx] = block_time_map.times[idx]
                    /\ idx \notin Indices(invalid_records)
                    /\ idx \in Indices(records) <=> Within(block_time_map.times[idx])
               ELSE resolved[idx] = ResolveTimestamp(ledger[idx + 1][2])

\* a record whose text does not parse is returned because its block time is
\* in the window, and one whose text is in the window is left out because its
\* block time is not
C9_Witness ==
    /\ cr_pc = "returned"
    /\ \E a, b \in DOMAIN resolved :
           /\ HasEntry(a) /\ ResolveTimestamp(ledger[a + 1][2]) = None /\ a \in Indices(records)
           /\ HasEntry(b) /\ ResolveTimestamp(ledger[b + 1][2]) = T1930 /\ b \notin Indices(records)


\* ------------------------------------------------------------------------
\* Block-time reconciliation: main, lines 212-243
\* ------------------------------------------------------------------------
MaxBlocks == 2
MaxChainTxs == 3

\* a transaction as the scan sees it: whom it is addressed to ("none" for a
\* contract creation) and what its input decodes to under the ABI
Transactions ==
    {[to |-> "none", call |-> "undecodable"],
     [to |-> "other", call |-> "logAttendance"],
     [to |-> "contract", call |-> "logAttendance"],
     [to |-> "contract", call |-> "other"],
     [to |-> "contract", call |-> "undecodable"]}

\* the chains: a sequence of transactions cut into consecutive blocks
CutsOf(n, k) == {c \in [1..k -> 0..n] : \A j \in 1..(k - 1) : c[j] <= c[j + 1]}

ChainOf(flat, cuts) ==
    [b \in 1..(Len(cuts) + 1) |->
        [timestamp |-> BlockStampOf(b - 1),
         transactions |->
            LET lo == IF b = 1 THEN 0 ELSE cuts[b - 1]
                hi == IF b = Len(cuts) + 1 THEN Len(flat) ELSE cuts[b]
            IN [j \in 1..(hi - lo) |-> flat[lo + j]]]]

Chains ==
    UNION {{ChainOf(flat, cuts) : cuts \in UNION {CutsOf(Len(flat), k) : k \in 0..(MaxBlocks - 1)}}
           : flat \in SeqsUpTo(Transactions, MaxChainTxs)}

InitReconcile ==
    /\ blocks \in Chains
    /\ from_block \in 0..(MaxBlocks - 1)
    /\ to_block \in {[latest |-> TRUE]} \cup {[latest |-> FALSE, number |-> n] : n \in 0..MaxBlocks}
    /\ rc_pc = "start" /\ rc_to = 0 /\ rc_b = 0 /\ current_index = 0
    /\ ResolverIdle /\ WriterIdle /\ ExtraIdle
    /\ ledger = <<>> /\ start_dt = None /\ end_dt = None /\ include_invalid = FALSE
    /\ block_time_map = NoMap
    /\ cr_pc = "idle" /\ total = 0 /\ cr_i = 0 /\ records = <<>> /\ invalid_records = <<>>
    /\ queried = <<>> /\ fetch_failed = {} /\ unpacked = <<>> /\ resolved = <<>> /\ stdout = <<>>

KeepTx_AnyCall(tx) == tx.to = "contract" /\ tx.call # "undecodable"

\* lines 228-237: addressed to the contract, decodable, and a logAttendance call
KeepTx(tx) ==
    /\ tx.to # "none"
    /\ tx.to = "contract"
    /\ tx.call # "undecodable"
    /\ tx.call = "logAttendance"

\* lines 226-239 over the transactions k.. of one block: the mapping and the
\* next index afterwards
RECURSIVE ScanTransactions(_, _, _, _, _)
ScanTransactions(txs, k, stamp, map, idx) ==
    IF k > Len(txs) THEN <<map, idx>>
    ELSE IF KeepTx(txs[k])
         THEN ScanTransactions(txs, k + 1, stamp, (idx :> FromTimestamp(stamp)) @@ map, idx + 1)
         ELSE ScanTransactions(txs, k + 1, stamp, map, idx)

reconcilerRest ==
    <<ledger, start_dt, end_dt, include_invalid, cr_pc, total, cr_i, records, invalid_records,
      queried, fetch_failed, unpacked, resolved, stdout, resolverVars, writerVars, extraVars>>

AfterScanError_Keep(map) == map

\* lines 241-243: any exception of the scan sets block_time_map = None
AfterScanError(map) == NoMap

\* lines 216-223; w3.eth.block_number may raise
ReconcileStart ==
    /\ rc_pc = "start"
    /\ \E rpc_ok \in BOOLEAN :
        IF to_block.latest /\ ~rpc_ok
        THEN /\ block_time_map' = AfterScanError(block_time_map)
             /\ rc_pc' = "done"
             /\ UNCHANGED <<rc_to, rc_b, current_index>>
        ELSE /\ rc_to' = IF to_block.latest THEN Len(blocks) - 1 ELSE to_block.number
             /\ block_time_map' = [present |-> TRUE, times |-> <<>>]
             /\ current_index' = 0
             /\ rc_b' = from_block
             /\ rc_pc' = "scan"
    /\ UNCHANGED <<blocks, from_block, to_block, reconcilerRest>>

\* lines 224-239: one block; get_block raises for a block past the tip or on
\* a failed call, and the handler at lines 241-243 drops the mapping
ReconcileBlock ==
    /\ rc_pc = "scan"
    /\ rc_b <= rc_to
    /\ \E rpc_ok \in BOOLEAN :
        IF rc_b > Len(blocks) - 1 \/ ~rpc_ok
        THEN /\ block_time_map' = AfterScanError(block_time_map)
             /\ rc_pc' = "done"
             /\ UNCHANGED <<rc_b, current_index>>
        ELSE LET block == blocks[rc_b + 1]
                 out == ScanTransactions(block.transactions, 1, block.timestamp,
                                         block_time_map.times, current_index)
             IN /\ block_time_map' = [present |-> TRUE, times |-> out[1]]
                /\ current_index' = out[2]
                /\ rc_b' = rc_b + 1
                /\ UNCHANGED rc_pc
    /\ UNCHANGED <<blocks, from_block, to_block, rc_to, reconcilerRest>>

\* line 240: the range is exhausted
ReconcileDone ==
    /\ rc_pc = "scan"
    /\ rc_b > rc_to
    /\ rc_pc' = "done"
    /\ UNCHANGED <<blocks, from_block, to_block, rc_to, rc_b, current_index, block_time_map,
                   reconcilerRest>>

NextReconcile == ReconcileStart \/ ReconcileBlock \/ ReconcileDone

SpecReconcile == InitReconcile /\ [][NextReconcile]_vars

\* ------------------------------------------------------------------------
\* C8: what reconciliation maps
\* ------------------------------------------------------------------------
\* the transactions of the range that are addressed to the contract and call
\* the append operation, as (block number, position in the block)
KeptPlaces ==
    {pl \in (from_block..rc_to) \X (1..MaxChainTxs) :
        /\ pl[1] + 1 <= Len(blocks)
        /\ pl[2] <= Len(blocks[pl[1] + 1].transactions)
        /\ blocks[pl[1] + 1].transactions[pl[2]] = [to |-> "contract", call |-> "logAttendance"]}

Before(p, q) == p[1] < q[1] \/ (p[1] = q[1] /\ p[2] < q[2])

Rank(pl) == Cardinality({q \in KeptPlaces : Before(q, pl)})

\* C8: after a completed scan the keys are exactly 0..n-1 for the n kept
\* transactions, and k maps to the block time of the k-th kept transaction in
\* ascending block, then in-block, order; other transactions take no index.
C8_ReconcileOrder ==
    (rc_pc = "done" /\ block_time_map.present) =>
        /\ DOMAIN block_time_map.times = 0..(Cardinality(KeptPlaces) - 1)
        /\ current_index = Cardinality(KeptPlaces)
        /\ \A pl \in KeptPlaces :
               block_time_map.times[Rank(pl)] = FromTimestamp(blocks[pl[1] + 1].timestamp)

\* two kept transactions of one block, with a transaction that is not kept
\* between them, get the indices 0 and 1
C8_Witness ==
    /\ rc_pc = "done" /\ block_time_map.present
    /\ Cardinality(KeptPlaces) = 2
    /\ \E p, q \in KeptPlaces : p[1] = q[1] /\ q[2] = p[2] + 2
    /\ \E b \in from_block..rc_to : \E j \in 1..Len(blocks[b + 1].transactions) :
           blocks[b + 1].transactions[j].call # "logAttendance"

\* the transactions of the whole chain that appended a record, when every
\* record comes from a transaction sent to the contract that calls the append
\* operation: record i was appended by the one of rank i
AppendPlaces ==
    {pl \in (0..(Len(blocks) - 1)) \X (1..MaxChainTxs) :
        /\ pl[2] <= Len(blocks[pl[1] + 1].transactions)
        /\ blocks[pl[1] + 1].transactions[pl[2]] = [to |-> "contract", call |-> "logAttendance"]}

AppendRank(pl) == Cardinality({q \in AppendPlaces : Before(q, pl)})

\* C18: whatever block range was requested, every index i of the mapping is
\* mapped to the time of the block holding the transaction that appended
\* record i.
C18_MapsAppender ==
    (rc_pc = "done" /\ block_time_map.present) =>
        \A i \in DOMAIN block_time_map.times :
            \E pl \in AppendPlaces :
                /\ AppendRank(pl) = i
                /\ block_time_map.times[i] = FromTimestamp(blocks[pl[1] + 1].timestamp)

\* ------------------------------------------------------------------------
\* A query with --use-block-times: main, lines 212-255, the scan and then
\* collect_records with the mapping the scan left
\* ------------------------------------------------------------------------
AppendTx == [to |-> "contract", call |-> "logAttendance"]

QueryChains ==
    UNION {{ChainOf(flat, cuts) : cuts \in UNION {CutsOf(Len(flat), k) : k \in 0..(MaxBlocks - 1)}}
           : flat \in SeqsUpTo({AppendTx}, MaxChainTxs)}

QueryRecords == {<<Alice, t, Sha256(HashInput(Alice, t))>> : t \in {Strftime(T1930), Garbage}}

InitQuery ==
    /\ blocks \in QueryChains
    /\ from_block \in 0..(MaxBlocks - 1)
    /\ to_block \in {[latest |-> TRUE]} \cup {[latest |-> FALSE, number |-> n] : n \in 0..MaxBlocks}
    /\ rc_pc = "start" /\ rc_to = 0 /\ rc_b = 0 /\ current_index = 0
    /\ ledger \in SeqsUpTo(QueryRecords, MaxRecords)
    /\ start_dt = T1900 /\ end_dt = T2000
    /\ include_invalid = TRUE
    /\ block_time_map = NoMap
    /\ cr_pc = "idle" /\ total = 0 /\ cr_i = 0 /\ records = <<>> /\ invalid_records = <<>>
    /\ queried = <<>> /\ fetch_failed = {} /\ unpacked = <<>> /\ resolved = <<>> /\ stdout = <<>>
    /\ ResolverIdle /\ WriterIdle /\ ExtraIdle

\* lines 246-248: collect_records is called with whatever mapping there is
CollectCall ==
    /\ rc_pc = "done"
    /\ cr_pc = "idle"
    /\ cr_pc' = "call"
    /\ UNCHANGED <<readerInputs, total, cr_i, records, invalid_records, queried, fetch_failed,
                   unpacked, resolved, stdout, resolverVars, reconcilerVars, writerVars,
                   extraVars>>

NextQuery ==
    \/ ReconcileStart
    \/ ReconcileBlock
    \/ ReconcileDone
    \/ CollectCall
    \/ CollectStart
    \/ CollectStep
    \/ CollectReturn

SpecQuery == InitQuery /\ [][NextQuery]_vars

\* the scan ended before the last block of its range was read
ScanIncomplete == rc_pc = "done" /\ rc_b <= rc_to

\* C21: when a block fetch failed while the mapping was built, no mapping is
\* left, every record of the query is resolved from its declared timestamp
\* text, and only records whose text time is in the window are returned.
C21_AllOrNothing ==
    ScanIncomplete =>
        /\ block_time_map = NoMap
        /\ \A i \in DOMAIN resolved : resolved[i] = ResolveTimestamp(ledger[i + 1][2])
        /\ \A k \in 1..Len(records) :
               LET t == ResolveTimestamp(ledger[records[k].index + 1][2])
               IN t # None /\ DtLe(start_dt, t) /\ DtLe(t, end_dt)

\* the scan failed after it had indexed a transaction, and the query returned
\* record 0 by its text time although the block of index 0 is outside the window
C21_Witness ==
    /\ ScanIncomplete
    /\ current_index > 0
    /\ cr_pc = "returned"
    /\ Len(records) > 0 /\ records[1].index = 0
    /\ from_block = 1

\* ------------------------------------------------------------------------
\* The capture loop and the write pipeline: capture_and_log, save_to_blockchain
\* ------------------------------------------------------------------------
MaxDetections == 3
MaxSessions == 2

Names == {Alice, Bob}

\* the calls save_to_blockchain makes, in order (lines 109-124)
Steps ==
    <<"get_transaction_count", "chain_id", "estimate_gas", "build_transaction",
      "sign_transaction", "send_raw_transaction", "wait_for_transaction_receipt">>

\* how an attempt ends: the call that raises, or what the wait returns
Outcomes ==
    {"nonce_error", "chain_id_error", "estimate_error", "build_error", "sign_error",
     "send_error", "timeout", "mined", "reverted"}

\* the number of calls made when the attempt ends that way
CallsMade(outcome) ==
    CASE outcome = "nonce_error" -> 1
      [] outcome = "chain_id_error" -> 2
      [] outcome = "estimate_error" -> 3
      [] outcome = "build_error" -> 4
      [] outcome = "sign_error" -> 5
      [] outcome = "send_error" -> 6
      [] OTHER -> 7

\* the node took the transaction: send_raw_transaction returned a hash
Accepted(outcome) == outcome \in {"timeout", "mined", "reverted"}

Transaction(name, timestamp, nonce) ==
    [name |-> name, timestamp |-> timestamp, hash |-> Sha256(HashInput(name, timestamp)),
     nonce |-> nonce]

\* tx_receipt.transactionHash.hex()
TxRef(tx) == <<"tx">> \o tx.hash \o <<tx.nonce>>

\* lines 124-130: what save_to_blockchain returns when the attempt ends as
\* outcome: the receipt's hash once the wait returns, (False, None) from the
\* exception handler
Returned(outcome, tx) ==
    IF outcome \in {"mined", "reverted"}
    THEN [success |-> TRUE, tx_hash |-> TxRef(tx)]
    ELSE [success |-> FALSE, tx_hash |-> None]

AlreadyLogged_Never(name, logged) == FALSE

\* line 162: name in logged_today
AlreadyLogged(name, logged) == name \in logged

\* lines 167-171 and 175: the name is added whether or not the write succeeded
MarkLogged(logged, name, success) == logged \cup {name}

writerRest ==
    <<start_dt, end_dt, include_invalid, block_time_map, cr_pc, total, cr_i, records,
      invalid_records, queried, fetch_failed, unpacked, resolved, stdout, resolverVars,
      reconcilerVars, extraVars>>

InitWriter ==
    /\ WriterIdle /\ ResolverIdle /\ ReconcilerIdle /\ ExtraIdle
    /\ ledger = <<>> /\ start_dt = None /\ end_dt = None /\ include_invalid = FALSE
    /\ block_time_map = NoMap
    /\ cr_pc = "idle" /\ total = 0 /\ cr_i = 0 /\ records = <<>> /\ invalid_records = <<>>
    /\ queried = <<>> /\ fetch_failed = {} /\ unpacked = <<>> /\ resolved = <<>> /\ stdout = <<>>

\* lines 229-235: init_web3_and_contract raises when the endpoint is not
\* connected, and the except clause turns --send off
InitialisedSend(send, reachable) == send /\ reachable

\* __main__ and lines 140-142: a run of capture_and_log begins
StartCapture ==
    /\ cap_pc \in {"idle", "stopped"}
    /\ session < MaxSessions
    /\ cap_pc' = "running"
    /\ session' = session + 1
    /\ asked_send' \in BOOLEAN
    /\ connected' \in (IF asked_send' THEN BOOLEAN ELSE {FALSE})
    /\ send_to_chain' = InitialisedSend(asked_send', connected')
    /\ credentials' \in BOOLEAN
    /\ logged_today' = {}
    /\ last' = NoFace
    /\ UNCHANGED <<detections, clock, tx_count, pending, submitted, ledger, writerRest>>

\* lines 148-150 and 190-195: camera error or the Q key
StopCapture ==
    /\ cap_pc = "running"
    /\ cap_pc' = "stopped"
    /\ UNCHANGED <<asked_send, connected, send_to_chain, credentials, session, logged_today,
                   detections, clock, tx_count, pending, submitted, last, ledger, writerRest>>

\* lines 128-130 (mutation): the exception of a failed write leaves the loop
AfterAttempt_Raise(outcome) ==
    IF outcome \in Outcomes \ {"mined", "reverted"} THEN "stopped" ELSE "running"

\* lines 128-130 and 146: save_to_blockchain catches every exception and
\* returns, so the while loop goes on to the next frame
AfterAttempt(outcome) == "running"

\* lines 154-186: one face of a frame; name is None when nothing matched
Detect(name) ==
    /\ cap_pc = "running"
    /\ detections < MaxDetections
    /\ detections' = detections + 1
    /\ clock' = clock + 1
    /\ LET timestamp == Strftime(FromTimestamp(clock'))
           tx == Transaction(name, timestamp, tx_count)
       IN IF name = None \/ AlreadyLogged(name, logged_today)
          THEN /\ last' = [NoFace EXCEPT !.name = name, !.was_logged = name # None]
               /\ UNCHANGED <<logged_today, tx_count, pending, submitted, ledger>>
          ELSE IF ~send_to_chain \/ ~credentials
          THEN \* line 174, or line 107 false: nothing is sent
               /\ last' = [NoFace EXCEPT !.name = name, !.attempted = TRUE,
                                         !.outcome = IF send_to_chain THEN "not_configured" ELSE "dry"]
               /\ logged_today' = MarkLogged(logged_today, name, FALSE)
               /\ UNCHANGED <<tx_count, pending, submitted, ledger>>
          ELSE \E outcome \in Outcomes :
               \* the node refuses a second transaction with the nonce of a pending one
               /\ Accepted(outcome) => \A p \in pending : p.nonce # tx_count
               /\ last' = [name |-> name, was_logged |-> FALSE, attempted |-> TRUE,
                           calls |-> SubSeq(Steps, 1, CallsMade(outcome)), outcome |-> outcome,
                           result |-> Returned(outcome, tx)]
               /\ submitted' =
                      IF CallsMade(outcome) >= 6
                      THEN Append(submitted, [name |-> name, session |-> session, nonce |-> tx_count,
                                              accepted |-> Accepted(outcome)])
                      ELSE submitted
               /\ pending' = IF outcome = "timeout" THEN pending \cup {tx} ELSE pending
               /\ tx_count' = IF outcome \in {"mined", "reverted"} THEN tx_count + 1 ELSE tx_count
               /\ ledger' = IF outcome = "mined"
                            THEN Append(ledger, <<tx.name, tx.timestamp, tx.hash>>)
                            ELSE ledger
               /\ logged_today' = MarkLogged(logged_today, name, last'.result.success)
    /\ cap_pc' = AfterAttempt(last'.outcome)
    /\ UNCHANGED <<asked_send, connected, send_to_chain, credentials, session, writerRest>>

\* the chain mines a transaction whose wait had timed out
MinePending ==
    /\ \E tx \in pending :
        /\ tx.nonce = tx_count
        /\ pending' = pending \ {tx}
        /\ tx_count' = tx_count + 1
        /\ ledger' = Append(ledger, <<tx.name, tx.timestamp, tx.hash>>)
    /\ UNCHANGED <<cap_pc, asked_send, connected, send_to_chain, credentials, session,
                   logged_today, detections, clock, submitted, last, writerRest>>

NextWriter ==
    \/ StartCapture
    \/ StopCapture
    \/ \E name \in Names \cup {None} : Detect(name)
    \/ MinePending

SpecWriter == InitWriter /\ [][NextWriter]_vars

\* ------------------------------------------------------------------------
\* Claims about the write pipeline
\* ------------------------------------------------------------------------
Submissions(name, run) ==
    {k \in 1..Len(submitted) : submitted[k].name = name /\ submitted[k].session = run}

\* C1: within one capture session at most one transaction is submitted per
\* identity, and the detection of an identity already in the session's set
\* makes no call at all: no nonce is fetched and nothing is submitted.
C1_AtMostOneWrite ==
    /\ \A name \in Names : \A run \in 1..session : Cardinality(Submissions(name, run)) <= 1
    /\ (last.name # None /\ last.was_logged) => (last.calls = <<>> /\ ~last.attempted)

\* an identity whose transaction was submitted in this session is seen again
C1_Witness ==
    /\ last.name # None /\ last.was_logged
    /\ Cardinality(Submissions(last.name, session)) = 1

FailedWrites == {"estimate_error", "build_error", "sign_error", "send_error"}

\* C2: after a write attempt that failed in cost estimation, building,
\* signing or submission, the identity is not in the session's set.
C2_FailedStaysEligible ==
    (last.attempted /\ last.outcome \in FailedWrites) => last.name \notin logged_today

\* C10: a confirmation wait that timed out is reported neither as confirmed
\* nor as failed: what the write returns differs from both.
C10_TimeoutDistinct ==
    (last.attempted /\ last.outcome = "timeout") =>
        /\ ~last.result.success
        /\ last.result # [success |-> FALSE, tx_hash |-> None]

\* an attempt that did not end in a receipt
Unconfirmed == Outcomes \ {"mined", "reverted"}

\* C13: a write attempt that ends in failure leaves the capture loop running.
C13_FailureKeepsRunning ==
    [][(detections' # detections /\ last'.attempted /\ last'.outcome \in Unconfirmed)
           => cap_pc' = "running"]_vars

\* after a failed attempt for one identity, another identity was detected in
\* the same run and its write was confirmed
C13_Witness ==
    /\ cap_pc = "running"
    /\ last.attempted /\ last.outcome = "mined"
    /\ \E k \in 1..Len(submitted) :
          /\ submitted[k].session = session
          /\ submitted[k].name # last.name
          /\ ~submitted[k].accepted

\* C15: a write that returned as confirmed for (identity, declaredTimestamp)
\* raised the ledger's count by exactly 1, and the record at the new highest
\* index holds that identity, that timestamp text and the writer's hash of
\* the pair.
C15_ConfirmedWriteReadsBack ==
    [][(detections' # detections /\ last'.attempted /\ last'.result.success) =>
           LET timestamp == Strftime(FromTimestamp(clock'))
           IN /\ Len(ledger') = Len(ledger) + 1
              /\ ledger'[Len(ledger')] =
                     <<last'.name, timestamp, Sha256(HashInput(last'.name, timestamp))>>]_vars

\* the order the claim gives to the steps of one attempt
ClaimedOrder ==
    <<"get_transaction_count", "estimate_gas", "build_transaction", "sign_transaction",
      "send_raw_transaction", "wait_for_transaction_receipt">>

IsClaimedStep(call) == \E k \in 1..Len(ClaimedOrder) : ClaimedOrder[k] = call

\* C16: an attempt that reaches submission made its calls in the order nonce
\* fetch, cost estimation, build, sign, submit, wait, with the nonce fetched
\* in the attempt itself; the identity is marked written and the transaction
\* reference returned only once the transaction is confirmed.
C16_OrderedAttempt ==
    (last.attempted /\ Len(last.calls) >= 6) =>
        LET made == SelectSeq(last.calls, IsClaimedStep)
            confirmed == last.outcome \in {"mined", "reverted"}
        IN /\ made = SubSeq(ClaimedOrder, 1, Len(made))
           /\ submitted[Len(submitted)].name = last.name
           /\ last.result.tx_hash # None => confirmed
           /\ last.name \in logged_today => confirmed

\* C17: no transaction is signed and submitted with the nonce of a
\* transaction the node accepted before it from the same account.
C17_DistinctNonces ==
    \A j, k \in 1..Len(submitted) :
        (j < k /\ submitted[j].accepted) => submitted[j].nonce # submitted[k].nonce

\* C12: an unreachable endpoint is fatal to a capture session that was asked
\* to write to the ledger: the session processes no detection and marks no
\* identity as handled.
C12_UnreachableIsFatal ==
    (asked_send /\ ~connected) => (logged_today = {} /\ last.name = None)

\* ------------------------------------------------------------------------
\* The window of the query: parse_time and main, lines 149-170
\* ------------------------------------------------------------------------
\* "%Y-%m-%d" compiled by _strptime
DATE_FORMAT == <<RegexY, Lit("-"), Regexm, Lit("-"), Regexd>>

\* datetime.strptime(text, "%Y-%m-%d"): midnight of the day, or None where it raises
StrptimeDate(t) ==
    LET e == ReMatchFrom(DATE_FORMAT, t, 1, 1)
    IN IF e = None THEN None
       ELSE IF e[5] # Len(t) + 1 THEN None
       ELSE MakeDatetime(IntOf(SubSeq(t, 1, e[1] - 1)),
                         IntOf(SubSeq(t, e[2], e[3] - 1)),
                         IntOf(SubSeq(t, e[4], e[5] - 1)), 0, 0, 0)

\* parse_time, lines 35-44: the date-time, else the date, else None where it raises
parse_time(txt) ==
    IF Strptime(txt) # None THEN Strptime(txt) ELSE StrptimeDate(txt)

Day1 == <<"2", "0", "2", "5", "-", "1", "2", "-", "0", "1">>

Day2 == <<"2", "0", "2", "5", "-", "1", "2", "-", "0", "2">>

DateArgs == {None, Day1, Day2, Garbage, Strftime(T1930)}

BoundArgs == {None, Day1, Day2, Strftime(T1930), Strftime(<<2025, 12, 2, 8, 0, 0>>), Garbage}

argsRest ==
    <<ledger, include_invalid, block_time_map, cr_pc, total, cr_i, records, invalid_records,
      queried, fetch_failed, unpacked, resolved, stdout, resolverVars, reconcilerVars, writerVars>>

InitArgs ==
    /\ arg_date \in DateArgs
    /\ arg_start \in BoundArgs
    /\ arg_end \in BoundArgs
    /\ args_pc = "parse"
    /\ ReaderIdle /\ ResolverIdle /\ ReconcilerIdle /\ WriterIdle /\ DashIdle /\ HashIdle

\* lines 149-170: the window, or parser.error / an uncaught ValueError
ParseArgs ==
    /\ args_pc = "parse"
    /\ LET day == StrptimeDate(arg_date)
           from == parse_time(arg_start)
           now == FromTimestamp(clock)
           to == IF arg_end # None THEN parse_time(arg_end) ELSE now
           window ==
               IF arg_date # None
               THEN IF arg_start # None \/ arg_end # None \/ day = None THEN None
                    ELSE <<MakeDatetime(day[1], day[2], day[3], 0, 0, 0),
                           MakeDatetime(day[1], day[2], day[3], 23, 59, 59)>>
               ELSE IF arg_start = None \/ from = None \/ to = None THEN None
                    ELSE <<from, to>>
       IN IF window = None \/ (window # None /\ DtLt(window[2], window[1]))
          THEN /\ args_pc' = "error"
               /\ UNCHANGED <<start_dt, end_dt>>
          ELSE /\ args_pc' = "ok"
               /\ start_dt' = window[1]
               /\ end_dt' = window[2]
    /\ UNCHANGED <<arg_date, arg_start, arg_end, argsRest, dashVars, hashVars>>

NextArgs == ParseArgs

SpecArgs == InitArgs /\ [][NextArgs]_vars

\* the number a text of digits denotes
RECURSIVE Numeral(_)
Numeral(s) == IF s = <<>> THEN 0 ELSE Numeral(SubSeq(s, 1, Len(s) - 1)) * 10 + DigitVal(s[Len(s)])

\* the day a date-only text YYYY-MM-DD names, at the given time of day
IsDateOnly(t) ==
    /\ Len(t) = 10
    /\ \A j \in {1, 2, 3, 4, 6, 7, 9, 10} : t[j] \in Digits
    /\ t[5] = "-" /\ t[8] = "-"

DayAt(t, h, mi, sec) ==
    <<Numeral(SubSeq(t, 1, 4)), Numeral(SubSeq(t, 6, 7)), Numeral(SubSeq(t, 9, 10)), h, mi, sec>>

\* C11: a date-only bound expands to its calendar day: as start (--date or
\* --start) it is 00:00:00 of the day, as end (--date or --end) it is
\* 23:59:59 of the day.
C11_DateOnlyWindow ==
    args_pc = "ok" =>
        /\ IsDateOnly(arg_date) => start_dt = DayAt(arg_date, 0, 0, 0) /\ end_dt = DayAt(arg_date, 23, 59, 59)
        /\ IsDateOnly(arg_start) => start_dt = DayAt(arg_start, 0, 0, 0)
        /\ IsDateOnly(arg_end) => end_dt = DayAt(arg_end, 23, 59, 59)

\* ------------------------------------------------------------------------
\* The dashboard's capture session: app.py, lines 129-197
\* ------------------------------------------------------------------------
MaxFrames == 4

\* line 146 (mutation): Start keeps the names of the session before
StartUsers_Kept(users) == users

\* line 146: st.session_state.logged_users = set()
StartUsers(users) == {}

\* line 173 (mutation): every recognised face is new
IsNewUser_Any(name, users) == name # None

\* line 173: if name and name not in st.session_state.logged_users
IsNewUser(name, users) == name # None /\ name \notin users

\* lines 174-177: the entry kept for the dashboard
Entry(name, timestamp) ==
    [name |-> name, timestamp |-> timestamp, hash |-> Sha256(HashInput(name, timestamp)),
     tx |-> None]

dashRest == <<resolverVars, readerVars, reconcilerVars, writerVars, argsVars, hashVars>>

InitDash ==
    /\ DashIdle /\ ArgsIdle /\ HashIdle
    /\ ResolverIdle /\ ReaderIdle /\ ReconcilerIdle /\ WriterIdle

\* lines 144-147: the Start button
StartWebcam ==
    /\ run_webcam' = TRUE
    /\ logged_users' = StartUsers(logged_users)
    /\ session_entries' = <<>>
    /\ earlier_users' = earlier_users \cup logged_users
    /\ UNCHANGED <<frames, dashRest>>

\* lines 150-151: the Stop button
StopWebcam ==
    /\ run_webcam' = FALSE
    /\ UNCHANGED <<logged_users, session_entries, frames, earlier_users, dashRest>>

\* lines 169-189: one face of a frame; name is None when match_face found nobody
Frame(name) ==
    /\ run_webcam
    /\ frames < MaxFrames
    /\ frames' = frames + 1
    /\ LET timestamp == Strftime(FromTimestamp(BlockStampOf(0) + frames'))
       IN IF IsNewUser(name, logged_users)
          THEN /\ session_entries' = Append(session_entries, Entry(name, timestamp))
               /\ logged_users' = logged_users \cup {name}
          ELSE UNCHANGED <<session_entries, logged_users>>
    /\ UNCHANGED <<run_webcam, earlier_users, dashRest>>

NextDash ==
    \/ StartWebcam
    \/ StopWebcam
    \/ \E name \in Names \cup {None} : Frame(name)

SpecDash == InitDash /\ [][NextDash]_vars

\* C14 as stated: after a Stop and after a (re)Start the set of identities
\* written in the session is empty.
C14_ClearedAtStopAndStart ==
    [][(run_webcam' # run_webcam \/ earlier_users' # earlier_users) => logged_users' = {}]_vars

\* C14: every (re)Start empties the session's set and its entries, so an
\* identity recorded in an earlier session is eligible again; a Stop leaves
\* the set as it is.
C14_ClearedAtStart ==
    [][/\ (run_webcam' /\ frames' = frames) => (logged_users' = {} /\ session_entries' = <<>>)
       /\ (~run_webcam' /\ frames' = frames) => logged_users' = logged_users]_vars

\* an identity recorded in an earlier session has been recorded again
C14_Witness ==
    run_webcam /\ earlier_users \cap logged_users # {}

\* the names of the session's entries
EntryNames == {session_entries[k].name : k \in 1..Len(session_entries)}

\* C19: the names in session_entries are pairwise distinct and are exactly
\* the members of logged_users.
C19_EntriesMatchUsers ==
    /\ \A j, k \in 1..Len(session_entries) :
           session_entries[j].name = session_entries[k].name => j = k
    /\ EntryNames = logged_users

\* a second session holds two entries and has seen a face beyond them
C19_Witness ==
    /\ earlier_users # {}
    /\ Len(session_entries) = 2
    /\ frames > 3

\* ------------------------------------------------------------------------
\* Timestamp resolution of one declared timestamp text
\* ------------------------------------------------------------------------
\* the field spellings the resolved texts are assembled from
YearTexts == {<<"2", "0", "2", "5">>, <<"2", "0", "2", "4">>, <<"0", "0", "0", "0">>}

MonthTexts == {<<"1", "2">>, <<"2">>, <<"0", "2">>, <<"1", "3">>}

DayTexts == {<<"0", "1">>, <<"1">>, <<"2", "9">>, <<"3", "0">>, <<" ", "1">>}

GapTexts == {<<" ">>, <<" ", " ">>, <<Tab>>}

HourTexts == {<<"2", "0">>, <<"0">>, <<"2", "4">>}

MinuteTexts == {<<"1", "9">>, <<"5">>}

SecondTexts == {<<"0", "0">>, <<"6", "0">>, <<"7">>}

CoreTexts ==
    {y \o <<"-">> \o mo \o <<"-">> \o d \o g \o h \o <<":">> \o mi \o <<":">> \o s :
        y \in YearTexts, mo \in MonthTexts, d \in DayTexts, g \in GapTexts,
        h \in HourTexts, mi \in MinuteTexts, s \in SecondTexts}

\* texts holding two candidates for the fallback search
FirstCandidates ==
    {Strftime(<<2025, 2, 30, 10, 0, 0>>), Strftime(<<2025, 12, 1, 20, 19, 0>>),
     <<"2", "0", "2", "5", "-", "1", "-", "1", " ", "0", ":", "0", ":", "0">>}

SecondCandidates == {Strftime(<<2025, 12, 1, 20, 20, 1>>), Strftime(<<2025, 12, 1, 20, 19, 60>>)}

DeclaredTexts ==
    CoreTexts
        \cup {Noise \o c \o Noise : c \in CoreTexts}
        \cup {<<"1">> \o c : c \in CoreTexts}
        \cup {c \o <<" ">> : c \in CoreTexts}
        \cup {a \o <<"x">> \o b : a \in FirstCandidates, b \in SecondCandidates}
        \cup {Garbage, <<>>}

InitResolve ==
    ts_text \in DeclaredTexts /\ ts_pc = "ready" /\ rec_dt = None /\ ReaderIdle /\ ReconcilerIdle
        /\ WriterIdle /\ ExtraIdle

\* lines 76-85 on the text of one record
Resolve ==
    /\ ts_pc = "ready"
    /\ rec_dt' = ResolveTimestamp(ts_text)
    /\ ts_pc' = "done"
    /\ UNCHANGED <<ts_text, readerVars, reconcilerVars, writerVars, extraVars>>

NextResolve == Resolve

SpecResolve == InitResolve /\ [][NextResolve]_vars

\* ------------------------------------------------------------------------
\* C7: what the resolution of a text yields
\* ------------------------------------------------------------------------
AllIn(s, set) == \A j \in 1..Len(s) : s[j] \in set

InstantOf(y, mo, d, h, mi, s) ==
    IF y >= 1 /\ mo \in 1..12 /\ d \in 1..DaysInMonth(y, mo) /\ h \in 0..23 /\ mi \in 0..59 /\ s \in 0..59
    THEN {<<y, mo, d, h, mi, s>>}
    ELSE {}

\* the text is exactly YYYY-MM-DD HH:MM:SS, every field zero-padded
StrictShape(t) ==
    /\ Len(t) = 19
    /\ \A j \in {1, 2, 3, 4, 6, 7, 9, 10, 12, 13, 15, 16, 18, 19} : t[j] \in Digits
    /\ t[5] = "-" /\ t[8] = "-" /\ t[11] = " " /\ t[14] = ":" /\ t[17] = ":"

\* the instants a strict text denotes: one when it is a valid date-time, else none
StrictInstants(t) ==
    IF StrictShape(t)
    THEN InstantOf(Numeral(SubSeq(t, 1, 4)), Numeral(SubSeq(t, 6, 7)), Numeral(SubSeq(t, 9, 10)),
                   Numeral(SubSeq(t, 12, 13)), Numeral(SubSeq(t, 15, 16)), Numeral(SubSeq(t, 18, 19)))
    ELSE {}

\* the text as a year of four digits, "-", a month, "-", a day, a run of
\* whitespace, an hour, ":", a minute, ":", a second, each of these five
\* fields written with one or two digits (the day also as a blank and a
\* nonzero digit)
LooseInstants(t) ==
    UNION {
        LET pm == 6
            pd == pm + lm + 1
            pw == pd + ld
            lw == Len(t) - (8 + lm + ld + lh + lmi + ls)
            ph == pw + lw
            pmi == ph + lh + 1
            ps == pmi + lmi + 1
            day == SubSeq(t, pd, pd + ld - 1)
        IN IF /\ lw >= 1
              /\ AllIn(SubSeq(t, 1, 4), Digits) /\ t[5] = "-"
              /\ AllIn(SubSeq(t, pm, pm + lm - 1), Digits) /\ t[pm + lm] = "-"
              /\ \/ AllIn(day, Digits)
                 \/ ld = 2 /\ day[1] = " " /\ day[2] \in D19
              /\ AllIn(SubSeq(t, pw, pw + lw - 1), Whitespace)
              /\ AllIn(SubSeq(t, ph, ph + lh - 1), Digits) /\ t[ph + lh] = ":"
              /\ AllIn(SubSeq(t, pmi, pmi + lmi - 1), Digits) /\ t[pmi + lmi] = ":"
              /\ AllIn(SubSeq(t, ps, ps + ls - 1), Digits)
           THEN InstantOf(Numeral(SubSeq(t, 1, 4)), Numeral(SubSeq(t, pm, pm + lm - 1)),
                          Numeral(IF day[1] = " " THEN Tail(day) ELSE day),
                          Numeral(SubSeq(t, ph, ph + lh - 1)), Numeral(SubSeq(t, pmi, pmi + lmi - 1)),
                          Numeral(SubSeq(t, ps, ps + ls - 1)))
           ELSE {}
        : lm \in 1..2, ld \in 1..2, lh \in 1..2, lmi \in 1..2, ls \in 1..2 }

StrictStarts(t) == {p \in 1..(Len(t) - 18) : StrictShape(SubSeq(t, p, p + 18))}

FirstStrictSubstring(t) ==
    LET p == CHOOSE q \in StrictStarts(t) : \A r \in StrictStarts(t) : q <= r
    IN SubSeq(t, p, p + 18)

Yields(result, instants) == IF instants = {} THEN result = None ELSE result \in instants

\* C7 as stated: a whole text of the shape YYYY-MM-DD HH:MM:SS that is a
\* valid date-time yields its instant; otherwise the first substring of that
\* shape decides; otherwise there is no result.
C7_ResolveAsStated ==
    ts_pc = "done" =>
        IF StrictInstants(ts_text) # {} THEN rec_dt \in StrictInstants(ts_text)
        ELSE IF StrictStarts(ts_text) # {}
             THEN Yields(rec_dt, StrictInstants(FirstStrictSubstring(ts_text)))
             ELSE rec_dt = None

\* C7 (amended): a whole text that reads as a valid date-time with fields of
\* one or two digits and any run of whitespace between date and time yields
\* that instant; otherwise the first substring of the strict shape
\* YYYY-MM-DD HH:MM:SS decides, yielding its instant if it is a valid
\* date-time and nothing if not; otherwise there is no result.
C7_Resolve ==
    ts_pc = "done" =>
        IF LooseInstants(ts_text) # {}
        THEN Cardinality(LooseInstants(ts_text)) = 1 /\ rec_dt \in LooseInstants(ts_text)
        ELSE IF StrictStarts(ts_text) # {}
             THEN Yields(rec_dt, StrictInstants(FirstStrictSubstring(ts_text)))
             ELSE rec_dt = None

\* a text with noise around it resolved through the fallback search
C7_Witness ==
    /\ ts_pc = "done"
    /\ LooseInstants(ts_text) = {}
    /\ Len(ts_text) > 19
    /\ rec_dt # None

\* ------------------------------------------------------------------------
\* The content hash of two pairs: face_attendance.py line 100, app.py line 176
\* ------------------------------------------------------------------------
Ann == <<"a", "n", "n">>

AnnLee == <<"a", "n", "n", "-", "l", "e", "e">>

\* a name that ends like the head of a hashed text
AnnStamped == Ann \o <<"-">> \o Strftime(T1859)

HashNames == {Ann, AnnLee, AnnStamped, Alice}

HashStamps ==
    {Strftime(T1859), Strftime(T1930), <<"l", "e", "e", "-">> \o Strftime(T1930), Garbage}

HashPairs == [name : HashNames, timestamp : HashStamps]

InitHash ==
    /\ hash_a \in HashPairs
    /\ hash_b \in HashPairs
    /\ hash_out = None
    /\ ArgsIdle /\ DashIdle
    /\ ResolverIdle /\ ReaderIdle /\ ReconcilerIdle /\ WriterIdle

\* the hash of each pair, as save_to_blockchain computes it
ComputeHashes ==
    /\ hash_out = None
    /\ hash_out' = <<Sha256(HashInput(hash_a.name, hash_a.timestamp)),
                     Sha256(HashInput(hash_b.name, hash_b.timestamp))>>
    /\ UNCHANGED <<hash_a, hash_b, resolverVars, readerVars, reconcilerVars, writerVars,
                   argsVars, dashVars>>

NextHash == ComputeHashes

SpecHash == InitHash /\ [][NextHash]_vars

\* C20 as stated: two different pairs of any strings never give the same
\* hashed text.
C20_BindsAnyPair ==
    (hash_out # None /\ hash_a # hash_b) => hash_out[1] # hash_out[2]

\* C20: two different pairs whose timestamps have the writer's format
\* YYYY-MM-DD HH:MM:SS never give the same hashed text, also when an identity
\* contains "-".
C20_BindsFormattedPair ==
    (/\ hash_out # None
     /\ hash_a # hash_b
     /\ StrictShape(hash_a.timestamp) /\ StrictShape(hash_b.timestamp))
        => hash_out[1] # hash_out[2]

\* two pairs with one formatted timestamp and different names, one with "-"
C20_Witness ==
    /\ hash_out # None
    /\ hash_a.timestamp = hash_b.timestamp /\ StrictShape(hash_a.timestamp)
    /\ hash_a.name = AnnLee /\ hash_b.name = Ann

====
